---- MODULE Spec2Model ----
(***************************************************************************)
(* Model of src/main/python/safetensors/json_to_bin.py: the conversion of  *)
(* line-delimited JSON records into two tensors per input file             *)
(* (process_file) and the dispatch of the files of a directory over a      *)
(* multiprocessing.Pool (the __main__ block).                              *)
(*                                                                         *)
(* Two specifications share the module:                                    *)
(*   SpecFile  one call of process_file, one action per input line;        *)
(*   Spec      the whole tool run twice on one input directory, one action *)
(*             per file-system step of every worker.                       *)
(***************************************************************************)
EXTENDS Integers, Sequences, FiniteSets, TLC

VARIABLES
    \* shared by the two specifications
    overwrite,          \* args.overwrite of the run, process_file's overwrite
    out,                \* the output directory: path -> what the path holds
    \* one call of process_file (SpecFile)
    input_file_path,    \* the directory entry the call is given
    lines,              \* the text lines of the input file
    pc,                 \* where the call is
    pbar,               \* the progress bar's count: the lines consumed
    vectors,            \* the list of line 38
    docids,             \* the list of line 39
    vectors_tensor,     \* line 88
    docids_tensor,      \* line 89
    raised,             \* the exception that ended the call, or "none"
    logging,            \* the root logger and its two handlers
    \* the whole tool (Spec)
    entries,            \* os.listdir(args.input), in its order, with each file
    cpu_count,          \* multiprocessing.cpu_count()
    run,                \* "none", "first" or "second" invocation of the tool
    main,               \* where the main process is
    main_error,         \* the exception that ended the main process, or "none"
    num_processes,      \* line 169
    taskqueue,          \* the chunks pool.map has not handed to a worker
    workers,            \* worker -> its chunk, its place in process_file
    result,             \* pool.map's MapResult
    outcome,            \* entry -> "not run", "returned", or its exception
    progress,           \* entry -> the lines its task consumed
    writers,            \* path -> the entries whose task saved to it, this run
    prior               \* the first run's overwrite and the files it left

fvars == <<input_file_path, lines, pc, pbar, vectors, docids, vectors_tensor,
           docids_tensor, raised, logging>>
rvars == <<entries, cpu_count, run, main, main_error, num_processes, taskqueue,
           workers, result, outcome, progress, writers, prior>>
vars == <<overwrite, out, fvars, rvars>>

(***************************************************************************)
(* Bounds of the model.                                                    *)
(***************************************************************************)
\* the longest input file of SpecFile, in lines
MaxLines == 2
\* the longest docid string, in characters
MaxDocidLen == 2
\* the largest multiprocessing.cpu_count() of Spec
MaxCpu == 2

(***************************************************************************)
(* logging's numeric levels.                                               *)
(***************************************************************************)
NOTSET == 0
DEBUG == 10
INFO == 20
WARNING == 30
ERROR == 40

(***************************************************************************)
(* Character sequences: file names, and str.replace / str.endswith on them *)
(***************************************************************************)
RECURSIVE Replace(_, _)
\* s.replace(old, ""): every non-overlapping occurrence of old, left to right
Replace(s, old) ==
    IF Len(s) < Len(old) THEN s
    ELSE IF SubSeq(s, 1, Len(old)) = old
         THEN Replace(SubSeq(s, Len(old) + 1, Len(s)), old)
         ELSE <<s[1]>> \o Replace(Tail(s), old)

EndsWith(s, suffix) ==
    /\ Len(s) >= Len(suffix)
    /\ SubSeq(s, Len(s) - Len(suffix) + 1, Len(s)) = suffix

ExtJsonl == <<".", "j", "s", "o", "n", "l">>
ExtGz == <<".", "g", "z">>
ExtJson == <<".", "j", "s", "o", "n">>

\* base_name of lines 21-26 (os.path.basename of the joined path is the entry)
BaseName(name) == Replace(Replace(Replace(name, ExtJsonl), ExtGz), ExtJson)

\* the two target paths of lines 28-29, as <<base name, suffix>>
VectorsPath(name) == <<BaseName(name), "_vectors.safetensors">>
DocidsPath(name) == <<BaseName(name), "_docids.safetensors">>

\* lines 42-48: the opener chosen from the extension, or none
FileOpener(name) ==
    IF EndsWith(name, ExtGz) THEN "gzip.open"
    ELSE IF EndsWith(name, ExtJsonl) \/ EndsWith(name, ExtJson) THEN "open"
    ELSE "none"

(***************************************************************************)
(* Input lines.  A line is text that is not JSON, a JSON value that is not *)
(* an object, or a JSON object with a `vector` and a `docid` field, each   *)
(* possibly absent.                                                        *)
(***************************************************************************)
FloatItem == [t |-> "float", v |-> "0.5"]
StrItem == [t |-> "str", v |-> "x"]
NoneItem == [t |-> "none", v |-> "None"]

Absent == [t |-> "absent", items |-> <<>>]
JNull == [t |-> "null", items |-> <<>>]
JObject == [t |-> "object", items |-> <<>>]
JNumber == [t |-> "number", items |-> <<>>]
JArray(items) == [t |-> "array", items |-> items]
JString(chars) == [t |-> "string", items |-> chars]

\* the JSON arrays a `vector` field holds in the model
VectorArrays ==
    { <<>>, <<FloatItem>>, <<StrItem>>,
      <<FloatItem, FloatItem>>, <<FloatItem, StrItem>> }

VectorFields == {Absent, JNull, JObject} \cup {JArray(a) : a \in VectorArrays}

Chars == {"a", "b"}

Strings == UNION {[1..n -> Chars] : n \in 0..MaxDocidLen}

DocidFields == {Absent, JNumber} \cup {JString(s) : s \in Strings}

NotJson == [kind |-> "text", vector |-> Absent, docid |-> Absent]
NotObject == [kind |-> "value", vector |-> Absent, docid |-> Absent]
Object(v, d) == [kind |-> "object", vector |-> v, docid |-> d]

\* Every shape of the `vector` field, with the docid present or not (a skipped
\* record's docid only reaches the warning), and every docid under the
\* vectors that pass line 68.
Lines ==
    {NotJson, NotObject}
    \cup {Object(v, d) : v \in VectorFields, d \in {Absent, JString(<<"a">>)}}
    \cup {Object(JArray(a), d) :
            a \in {<<FloatItem>>, <<FloatItem, FloatItem>>}, d \in DocidFields}

Files == UNION {[1..n -> Lines] : n \in 0..MaxLines}

\* ord(char) of line 72
Ord(c) == CASE c = "a" -> 97 [] c = "b" -> 98

(***************************************************************************)
(* Lines 66-79: one iteration of the loop over the file's lines.           *)
(* The result is the two lists after the line, the warning logged (or      *)
(* none) and the exception that leaves the loop (or "none").               *)
(***************************************************************************)
Step(vs, ds, warning, exc) ==
    [vectors |-> vs, docids |-> ds, warning |-> warning, raised |-> exc]

NoWarning == <<>>
\* line 79: "Skipped invalid JSON entry: {e}"
JsonWarning(e) == <<"Skipped invalid JSON entry", <<e>>>>
\* lines 75-77: "... with docid: {entry.get('docid', 'N/A')}"
VectorWarning(line) ==
    <<"Skipped invalid vector entry with docid",
      CASE line.docid.t = "absent" -> <<"N/A">>
        [] line.docid.t = "number" -> <<"5">>
        [] OTHER -> line.docid.items>>

\* entry.get("vector", [None]) of line 68
GetVector(line) ==
    IF line.vector.t = "absent" THEN JArray(<<NoneItem>>) ELSE line.vector

\* lines 70-73, after vectors.append(entry["vector"]) of line 69
TakeDocid(line, vs, ds) ==
    CASE line.docid.t = "absent" ->
            \* entry["docid"]: KeyError, caught on line 78
            Step(vs, ds, JsonWarning("KeyError"), "none")
      [] line.docid.t = "number" ->
            \* for char in docid: TypeError, caught nowhere
            Step(vs, ds, NoWarning, "TypeError")
      [] OTHER ->
            Step(vs,
                 Append(ds, [i \in 1..Len(line.docid.items) |->
                                Ord(line.docid.items[i])]),
                 NoWarning, "none")

ProcessLine(line, vs, ds) ==
    CASE line.kind = "text" ->
            \* json.loads: JSONDecodeError, caught on line 78
            Step(vs, ds, JsonWarning("JSONDecodeError"), "none")
      [] line.kind = "value" ->
            \* entry.get: AttributeError, caught nowhere
            Step(vs, ds, NoWarning, "AttributeError")
      [] OTHER ->
            LET got == GetVector(line) IN
            CASE got.t = "null" -> Step(vs, ds, NoWarning, "TypeError")
              [] got.t = "object" ->
                    \* {}[0]: KeyError, caught on line 78
                    Step(vs, ds, JsonWarning("KeyError"), "none")
              [] got.items = <<>> -> Step(vs, ds, NoWarning, "IndexError")
              [] got.items[1].t = "float" ->
                    TakeDocid(line, Append(vs, line.vector.items), ds)
              [] OTHER ->
                    Step(vs, ds, VectorWarning(line), "none")

(***************************************************************************)
(* Lines 88-91: the two tensors.                                           *)
(***************************************************************************)
Failed(e) == [ok |-> FALSE, error |-> e, rows |-> <<>>]
Tensor(rows) == [ok |-> TRUE, error |-> "none", rows |-> rows]

MaxOf(S) == CHOOSE m \in S : \A x \in S : x <= m

\* torch.tensor(vectors, dtype=torch.float64): a list of equally long lists of
\* numbers, or the empty list
VectorsTensor(vs) ==
    IF \E i \in 1..Len(vs) : \E j \in 1..Len(vs[i]) : vs[i][j].t # "float"
    THEN Failed("ValueError")
    ELSE IF \E i, j \in 1..Len(vs) : Len(vs[i]) # Len(vs[j])
    THEN Failed("ValueError")
    ELSE Tensor([i \in 1..Len(vs) |-> [j \in 1..Len(vs[i]) |-> vs[i][j].v]])

\* the row length pad_sequence pads to
PadLength(ds) == MaxOf({Len(ds[i]) : i \in 1..Len(ds)})

\* a pad_sequence that pads (and cuts) to the first sequence's length
PadSequenceToFirst(ds) ==
    IF ds = <<>> THEN Failed("RuntimeError")
    ELSE Tensor([i \in 1..Len(ds) |->
                    [j \in 1..Len(ds[1]) |->
                        IF j <= Len(ds[i]) THEN ds[i][j] ELSE 0]])

\* pad_sequence([...], batch_first=True): rows right-padded with 0; no sequence
\* at all is an error
PadSequence(ds) ==
    IF ds = <<>> THEN Failed("RuntimeError")
    ELSE Tensor([i \in 1..Len(ds) |->
                    [j \in 1..PadLength(ds) |->
                        IF j <= Len(ds[i]) THEN ds[i][j] ELSE 0]])

(***************************************************************************)
(* Lines 16-48: the checks process_file makes before it reads.             *)
(* fs is the output directory: a function from the paths that exist to     *)
(* what they hold.                                                         *)
(***************************************************************************)
Exists(fs, path) == path \in DOMAIN fs

\* an existence check that wants both targets to exist
BothOutputsExist(fs, name) ==
    Exists(fs, VectorsPath(name)) /\ Exists(fs, DocidsPath(name))

\* lines 31-32
OutputsExist(fs, name) ==
    Exists(fs, VectorsPath(name)) \/ Exists(fs, DocidsPath(name))

\* the exception the checks raise, or "none"
Precheck(name, exists, ow, fs) ==
    IF ~exists THEN "FileNotFoundError"
    ELSE IF ~ow /\ OutputsExist(fs, name) THEN "FileExistsError"
    ELSE IF FileOpener(name) = "none" THEN "ValueError"
    ELSE "none"

\* save_file(tensors, path): the path holds the tensors, whatever it held
SaveFile(fs, path, key, tensor) ==
    [p \in DOMAIN fs \cup {path} |->
        IF p = path THEN [key |-> key, rows |-> tensor.rows] ELSE fs[p]]

\* load_file(path)[key]
LoadFile(fs, path) == fs[path].rows

NoFiles == [p \in {} |-> 0]

(***************************************************************************)
(* logging: the root logger's level and its handlers, in the order of      *)
(* lines 126-130, with what each has written.                              *)
(***************************************************************************)
\* logging.basicConfig of lines 123-131
BasicConfig ==
    [level |-> INFO,
     handlers |-> << [stream |-> "process_log.log", level |-> NOTSET,
                      records |-> <<>>],
                     [stream |-> "console", level |-> NOTSET,
                      records |-> <<>>] >>]

\* logging.log(level, msg): Logger.isEnabledFor, then each handler's level
Emit(lg, level, msg) ==
    IF level < lg.level THEN lg
    ELSE [lg EXCEPT !.handlers =
            [h \in DOMAIN lg.handlers |->
                IF level >= lg.handlers[h].level
                THEN [lg.handlers[h] EXCEPT
                        !.records = Append(@, <<level, msg>>)]
                ELSE lg.handlers[h]]]

\* logging.getLogger().handlers[0].setLevel(level) of line 111
SetFirstHandlerLevel(lg, level) == [lg EXCEPT !.handlers[1].level = level]

EmitWarning(lg, warning) ==
    IF warning = NoWarning THEN lg ELSE Emit(lg, WARNING, warning)

FileRecords(lg) == lg.handlers[1].records
ConsoleRecords(lg) == lg.handlers[2].records

(***************************************************************************)
(* SpecFile: one call of process_file on one input file, in the process    *)
(* that ran lines 122-131.                                                 *)
(***************************************************************************)
NameJsonl == <<"a", ".", "j", "s", "o", "n", "l">>

\* what an earlier run left for the same base name
EarlierOutput ==
    SaveFile(SaveFile(NoFiles, VectorsPath(NameJsonl), "vectors",
                      Tensor(<<<<"0.5">>>>)),
             DocidsPath(NameJsonl), "docids", Tensor(<<<<97>>>>))

\* the tool has not been started: process_file is called on its own
NoRun ==
    /\ entries = <<>>
    /\ cpu_count = 1
    /\ run = "none"
    /\ main = "idle"
    /\ main_error = "none"
    /\ num_processes = 0
    /\ taskqueue = <<>>
    /\ workers = <<>>
    /\ result = [left |-> 0, success |-> TRUE, value |-> "none"]
    /\ outcome = <<>>
    /\ progress = <<>>
    /\ writers = NoFiles
    /\ prior = [overwrite |-> FALSE, out |-> NoFiles]

FileInit ==
    /\ overwrite \in BOOLEAN
    /\ out \in {NoFiles, EarlierOutput}
    /\ input_file_path = NameJsonl
    /\ lines \in Files
    /\ pc = "start"
    /\ pbar = 0
    /\ vectors = <<>>
    /\ docids = <<>>
    /\ vectors_tensor = <<>>
    /\ docids_tensor = <<>>
    /\ raised = "none"
    /\ logging = BasicConfig
    /\ NoRun

\* lines 16-54: the checks, the lists, the opener
Start ==
    /\ pc = "start"
    /\ LET e == Precheck(input_file_path, TRUE, overwrite, out) IN
        IF e # "none"
        THEN /\ raised' = e
             /\ pc' = "raised"
             /\ logging' = Emit(logging, ERROR, <<"error", <<e>>>>)
        ELSE /\ pc' = "read"
             /\ UNCHANGED <<raised, logging>>
    /\ UNCHANGED <<overwrite, out, input_file_path, lines, pbar, vectors,
                   docids, vectors_tensor, docids_tensor, rvars>>

\* lines 65-81: one line of the file
ReadLine ==
    /\ pc = "read"
    /\ pbar < Len(lines)
    /\ LET step == ProcessLine(lines[pbar + 1], vectors, docids) IN
        /\ vectors' = step.vectors
        /\ docids' = step.docids
        /\ logging' = EmitWarning(logging, step.warning)
        /\ raised' = step.raised
        /\ pc' = IF step.raised = "none" THEN "read" ELSE "raised"
    /\ pbar' = pbar + 1
    /\ UNCHANGED <<overwrite, out, input_file_path, lines, vectors_tensor,
                   docids_tensor, rvars>>

\* lines 88-91, once the loop has consumed the file
Build ==
    /\ pc = "read"
    /\ pbar = Len(lines)
    /\ LET vt == VectorsTensor(vectors)
           dt == PadSequence(docids)
       IN IF ~vt.ok
          THEN /\ raised' = vt.error
               /\ pc' = "raised"
               /\ UNCHANGED <<vectors_tensor, docids_tensor>>
          ELSE IF ~dt.ok
          THEN /\ raised' = dt.error
               /\ pc' = "raised"
               /\ vectors_tensor' = vt.rows
               /\ UNCHANGED docids_tensor
          ELSE /\ vectors_tensor' = vt.rows
               /\ docids_tensor' = dt.rows
               /\ pc' = "save"
               /\ UNCHANGED raised
    /\ UNCHANGED <<overwrite, out, input_file_path, lines, pbar, vectors,
                   docids, logging, rvars>>

\* lines 94-98
Save ==
    /\ pc = "save"
    /\ out' = SaveFile(SaveFile(out, VectorsPath(input_file_path), "vectors",
                                Tensor(vectors_tensor)),
                       DocidsPath(input_file_path), "docids",
                       Tensor(docids_tensor))
    /\ logging' = Emit(Emit(logging, INFO, <<"Saved vectors", <<>>>>),
                       INFO, <<"Saved docids", <<>>>>)
    /\ pc' = "verify"
    /\ UNCHANGED <<overwrite, input_file_path, lines, pbar, vectors, docids,
                   vectors_tensor, docids_tensor, raised, rvars>>

\* lines 105-113
Verify ==
    /\ pc = "verify"
    /\ LET loaded_vectors == LoadFile(out, VectorsPath(input_file_path))
           loaded_docids == LoadFile(out, DocidsPath(input_file_path))
           l1 == Emit(logging, INFO, <<"Loaded vectors from", <<>>>>)
           l2 == Emit(l1, INFO, <<"Loaded document IDs (ASCII) from", <<>>>>)
           l3 == SetFirstHandlerLevel(l2, DEBUG)
           l4 == Emit(l3, DEBUG, <<"Loaded vectors", loaded_vectors>>)
       IN logging' = Emit(l4, DEBUG,
                          <<"Loaded document IDs (ASCII)", loaded_docids>>)
    /\ pc' = "done"
    /\ UNCHANGED <<overwrite, out, input_file_path, lines, pbar, vectors,
                   docids, vectors_tensor, docids_tensor, raised, rvars>>

FileNext == Start \/ ReadLine \/ Build \/ Save \/ Verify

SpecFile == FileInit /\ [][FileNext]_vars

(***************************************************************************)
(* Spec: the tool run twice on one input directory.                        *)
(*                                                                         *)
(* The directory's entries, in the order os.listdir gives them.  An entry  *)
(* is a file with its lines, or a name whose path does not exist (a        *)
(* dangling symbolic link: os.listdir lists it, os.path.exists denies it). *)
(***************************************************************************)
NameTxt == <<"c", ".", "t", "x", "t">>
NameJson == <<"a", ".", "j", "s", "o", "n">>
NameB == <<"b", ".", "j", "s", "o", "n">>
NameGz == <<"d", ".", "j", "s", "o", "n", ".", "g", "z">>

\* {"vector": [0.5], "docid": "a"}
LineA == Object(JArray(<<FloatItem>>), JString(<<"a">>))
\* {"vector": [0.5, 0.5], "docid": "ab"}
LineAB == Object(JArray(<<FloatItem, FloatItem>>), JString(<<"a", "b">>))

Entry(name, exists, text) ==
    [name |-> name, listed |-> TRUE, exists |-> exists, lines |-> text]
NoEntry(name) ==
    [name |-> name, listed |-> FALSE, exists |-> FALSE, lines |-> <<>>]

\* what each name of the directory may be: a good file, or one kind of bad
\* one (vectors of two lengths, a dangling link, no line at all)
Candidates ==
    << {Entry(NameTxt, TRUE, <<LineA>>)},
       {Entry(NameJson, TRUE, <<LineA>>),
        Entry(NameJson, TRUE, <<LineA, LineAB>>)},
       {Entry(NameJsonl, TRUE, <<LineAB>>), Entry(NameJsonl, FALSE, <<>>)},
       {Entry(NameB, TRUE, <<LineA>>), Entry(NameB, TRUE, <<>>)},
       {Entry(NameGz, TRUE, <<LineAB>>)} >>

Names == <<NameTxt, NameJson, NameJsonl, NameB, NameGz>>

Slot(i) == Candidates[i] \cup {NoEntry(Names[i])}

Directories ==
    { SelectSeq(d, LAMBDA e : e.listed) :
        d \in Slot(1) \X Slot(2) \X Slot(3) \X Slot(4) \X Slot(5) }

(***************************************************************************)
(* Lines 57-91 as one step: the loop over all the lines, then the tensors. *)
(***************************************************************************)
RECURSIVE ReadLines(_, _, _, _)
\* the loop of lines 65-81 from line n + 1 on: the lists, the progress
\* bar's count and the exception that left the loop, or "none"
ReadLines(text, n, vs, ds) ==
    IF n = Len(text)
    THEN [vectors |-> vs, docids |-> ds, pbar |-> n, raised |-> "none"]
    ELSE LET step == ProcessLine(text[n + 1], vs, ds) IN
         IF step.raised # "none"
         THEN [vectors |-> step.vectors, docids |-> step.docids,
               pbar |-> n + 1, raised |-> step.raised]
         ELSE ReadLines(text, n + 1, step.vectors, step.docids)

\* lines 16-91 of process_file on a directory entry: the exception raised
\* (or "none"), the lines consumed, the two tensors
Prepare(entry, ow, fs) ==
    LET e == Precheck(entry.name, entry.exists, ow, fs)
        r == ReadLines(entry.lines, 0, <<>>, <<>>)
        vt == VectorsTensor(r.vectors)
        dt == PadSequence(r.docids)
        Raise(x, n) == [raised |-> x, pbar |-> n,
                        vectors_tensor |-> <<>>, docids_tensor |-> <<>>]
    IN IF e # "none" THEN Raise(e, 0)
       ELSE IF r.raised # "none" THEN Raise(r.raised, r.pbar)
       ELSE IF ~vt.ok THEN Raise(vt.error, r.pbar)
       ELSE IF ~dt.ok THEN Raise(dt.error, r.pbar)
       ELSE [raised |-> "none", pbar |-> r.pbar,
             vectors_tensor |-> vt.rows, docids_tensor |-> dt.rows]

(***************************************************************************)
(* multiprocessing.Pool.map, as lines 172-176 use it: the items are cut    *)
(* into chunks, a worker runs a chunk's items in order and stops at the    *)
(* first that raises, and map returns once every chunk is accounted for.   *)
(***************************************************************************)
Min(a, b) == IF a <= b THEN a ELSE b

\* Pool._map_async: chunksize, extra = divmod(len(iterable), len(pool) * 4)
ChunkSize(n, p) ==
    (n \div (p * 4)) + (IF n % (p * 4) # 0 THEN 1 ELSE 0)

\* Pool._get_tasks: the items 1..n in chunks of size c
Chunks(n, c) ==
    [k \in 1..((n + c - 1) \div c) |->
        [j \in 1..Min(c, n - (k - 1) * c) |-> (k - 1) * c + j]]

Idle == [chunk |-> <<>>, pc |-> "idle",
         vectors_tensor |-> <<>>, docids_tensor |-> <<>>]

\* MapResult._set: one chunk less to wait for; the first exception is kept
ChunkDone(res, exc) ==
    [left |-> res.left - 1,
     success |-> res.success /\ exc = "none",
     value |-> IF res.success /\ exc # "none" THEN exc ELSE res.value]

Saved(ws, path, i) ==
    [p \in DOMAIN ws \cup {path} |->
        IF p \in DOMAIN ws
        THEN (IF p = path THEN ws[p] \cup {i} ELSE ws[p])
        ELSE {i}]

Init ==
    /\ entries \in Directories
    /\ cpu_count \in 1..MaxCpu
    /\ run = "none"
    /\ main = "idle"
    /\ main_error = "none"
    /\ num_processes = 0
    /\ taskqueue = <<>>
    /\ workers = <<>>
    /\ result = [left |-> 0, success |-> TRUE, value |-> "none"]
    /\ outcome = <<>>
    /\ progress = <<>>
    /\ writers = NoFiles
    /\ prior = [overwrite |-> FALSE, out |-> NoFiles]
    /\ overwrite = FALSE
    /\ out = NoFiles
    \* no call of process_file outside the pool; the log is not followed
    /\ input_file_path = <<>>
    /\ lines = <<>>
    /\ pc = "none"
    /\ pbar = 0
    /\ vectors = <<>>
    /\ docids = <<>>
    /\ vectors_tensor = <<>>
    /\ docids_tensor = <<>>
    /\ raised = "none"
    /\ logging = BasicConfig

RunEnded == main \in {"joined", "crashed"}

\* lines 149-176: the arguments, the listing, the pool, pool.map's dispatch.
\* The second invocation starts once the first has ended.
Main(ow) ==
    /\ \/ run = "none"
       \/ run = "first" /\ RunEnded
    /\ run' = IF run = "none" THEN "first" ELSE "second"
    /\ prior' = IF run = "first"
                THEN [overwrite |-> overwrite, out |-> out] ELSE prior
    /\ overwrite' = ow
    /\ LET n == Len(entries)
           p == Min(cpu_count, n)
       IN /\ num_processes' = p
          /\ outcome' = [i \in 1..n |-> "not run"]
          /\ progress' = [i \in 1..n |-> 0]
          /\ writers' = NoFiles
          /\ IF p < 1
             THEN \* Pool(processes=0): ValueError
                  /\ main' = "crashed"
                  /\ main_error' = "ValueError"
                  /\ workers' = <<>>
                  /\ taskqueue' = <<>>
                  /\ result' = [left |-> 0, success |-> TRUE,
                                value |-> "none"]
             ELSE /\ main' = "map"
                  /\ main_error' = "none"
                  /\ workers' = [w \in 1..p |-> Idle]
                  /\ taskqueue' = Chunks(n, ChunkSize(n, p))
                  /\ result' = [left |-> Len(Chunks(n, ChunkSize(n, p))),
                                success |-> TRUE, value |-> "none"]
    /\ UNCHANGED <<out, entries, cpu_count, fvars>>

\* a worker takes the next chunk off the queue
Take(w) ==
    /\ main = "map"
    /\ workers[w].pc = "idle"
    /\ taskqueue # <<>>
    /\ workers' = [workers EXCEPT ![w] = [Idle EXCEPT !.chunk = Head(taskqueue),
                                                      !.pc = "check"]]
    /\ taskqueue' = Tail(taskqueue)
    /\ UNCHANGED <<overwrite, out, entries, cpu_count, run, main, main_error,
                   num_processes, result, outcome, progress, writers, prior,
                   fvars>>

\* lines 16-91 of process_file on the chunk's next entry; an exception ends
\* the chunk (mapstar runs list(map(func, chunk)))
Check(w) ==
    /\ main = "map"
    /\ workers[w].pc = "check"
    /\ LET i == Head(workers[w].chunk)
           r == Prepare(entries[i], overwrite, out)
       IN /\ progress' = [progress EXCEPT ![i] = r.pbar]
          /\ IF r.raised # "none"
             THEN /\ outcome' = [outcome EXCEPT ![i] = r.raised]
                  /\ result' = ChunkDone(result, r.raised)
                  /\ workers' = [workers EXCEPT ![w] = Idle]
             ELSE /\ workers' = [workers EXCEPT ![w] =
                        [@ EXCEPT !.pc = "save_vectors",
                                  !.vectors_tensor = r.vectors_tensor,
                                  !.docids_tensor = r.docids_tensor]]
                  /\ UNCHANGED <<outcome, result>>
    /\ UNCHANGED <<overwrite, out, entries, cpu_count, run, main, main_error,
                   num_processes, taskqueue, writers, prior, fvars>>

\* line 95
SaveVectors(w) ==
    /\ main = "map"
    /\ workers[w].pc = "save_vectors"
    /\ LET i == Head(workers[w].chunk)
           path == VectorsPath(entries[i].name)
       IN /\ out' = SaveFile(out, path, "vectors",
                             Tensor(workers[w].vectors_tensor))
          /\ writers' = Saved(writers, path, i)
    /\ workers' = [workers EXCEPT ![w].pc = "save_docids"]
    /\ UNCHANGED <<overwrite, entries, cpu_count, run, main, main_error,
                   num_processes, taskqueue, result, outcome, progress, prior,
                   fvars>>

\* lines 96-113: the second save, the read-back, the return; then the
\* chunk's next entry, or the chunk's result
SaveDocids(w) ==
    /\ main = "map"
    /\ workers[w].pc = "save_docids"
    /\ LET i == Head(workers[w].chunk)
           path == DocidsPath(entries[i].name)
       IN /\ out' = SaveFile(out, path, "docids",
                             Tensor(workers[w].docids_tensor))
          /\ writers' = Saved(writers, path, i)
          /\ outcome' = [outcome EXCEPT ![i] = "returned"]
    /\ IF Len(workers[w].chunk) > 1
       THEN /\ workers' = [workers EXCEPT ![w] =
                  [Idle EXCEPT !.chunk = Tail(workers[w].chunk),
                               !.pc = "check"]]
            /\ UNCHANGED result
       ELSE /\ workers' = [workers EXCEPT ![w] = Idle]
            /\ result' = ChunkDone(result, "none")
    /\ UNCHANGED <<overwrite, entries, cpu_count, run, main, main_error,
                   num_processes, taskqueue, progress, prior, fvars>>

\* pool.map returns or raises once no chunk is left; lines 172-180: the
\* with block terminates the pool, and only a run without an exception
\* reaches pool.join() and pool.close()
MapReturns ==
    /\ main = "map"
    /\ result.left = 0
    /\ main' = IF result.success THEN "joined" ELSE "crashed"
    /\ main_error' = result.value
    /\ workers' = <<>>
    /\ UNCHANGED <<overwrite, out, entries, cpu_count, run, num_processes,
                   taskqueue, result, outcome, progress, writers, prior,
                   fvars>>

Next ==
    \/ \E ow \in BOOLEAN : Main(ow)
    \/ \E w \in DOMAIN workers : Take(w)
    \/ \E w \in DOMAIN workers : Check(w)
    \/ \E w \in DOMAIN workers : SaveVectors(w)
    \/ \E w \in DOMAIN workers : SaveDocids(w)
    \/ MapReturns

Spec == Init /\ [][Next]_vars

(***************************************************************************)
(* Claims about process_file, checked under SpecFile.                      *)
(***************************************************************************)
\* the validity rule: a non-empty sequence whose first element is a float
ValidVector(line) ==
    /\ line.kind = "object"
    /\ line.vector.t = "array"
    /\ line.vector.items # <<>>
    /\ line.vector.items[1].t = "float"

HasDocid(line) == line.kind = "object" /\ line.docid.t = "string"

Codes(chars) == [i \in 1..Len(chars) |-> Ord(chars[i])]

Accepted(line) == ValidVector(line) /\ HasDocid(line)

Consumed == SubSeq(lines, 1, pbar)

WarningsOn(records) ==
    Len(SelectSeq(records, LAMBDA r : r[1] = WARNING))

\* C1: a line that is a JSON object whose `vector` is not a non-empty
\* sequence starting with a float is skipped with a warning, appends to
\* neither list, and the loop goes on to the next line: the task does not
\* fail on it.
C1_InvalidVectorSkipped ==
    [][(/\ pc = "read"
        /\ pbar < Len(lines)
        /\ lines[pbar + 1].kind = "object"
        /\ ~ValidVector(lines[pbar + 1]))
       => (/\ pc' = "read"
           /\ raised' = "none"
           /\ vectors' = vectors
           /\ docids' = docids
           /\ WarningsOn(ConsoleRecords(logging'))
                = WarningsOn(ConsoleRecords(logging)) + 1)]_vars

\* C2: while the loop runs, the two lists are as long as each other and hold,
\* index by index, the vector and the codes of the same record: those of the
\* consumed lines that were not skipped.  A line without a docid is in
\* neither.
C2_ListsAligned ==
    pc = "read" =>
        LET kept == SelectSeq(Consumed, Accepted) IN
        /\ Len(vectors) = Len(docids)
        /\ vectors = [i \in 1..Len(kept) |-> kept[i].vector.items]
        /\ docids = [i \in 1..Len(kept) |-> Codes(kept[i].docid.items)]

\* C5: once the call has ended without an output collision, each of the two
\* output arrays has as many rows as the file has lines that are JSON with a
\* valid vector, zero included.
C5_RowCount ==
    (pc \in {"done", "raised"} /\ raised # "FileExistsError") =>
        LET n == Len(SelectSeq(lines, ValidVector)) IN
        /\ Exists(out, VectorsPath(input_file_path))
        /\ Exists(out, DocidsPath(input_file_path))
        /\ Len(LoadFile(out, VectorsPath(input_file_path))) = n
        /\ Len(LoadFile(out, DocidsPath(input_file_path))) = n

\* C6: every row of the identifier array is as long as the longest docid
\* among the accepted records; row i begins with the ordinal codes of the
\* i-th accepted docid, in order, and holds 0 beyond it.  The array saved is
\* that array.
C6_Padding ==
    pc \in {"save", "verify", "done"} =>
        LET kept == SelectSeq(lines, Accepted)
            longest == MaxOf({Len(kept[i].docid.items) : i \in 1..Len(kept)})
        IN /\ Len(docids_tensor) = Len(kept)
           /\ \A i \in 1..Len(kept) :
                /\ Len(docids_tensor[i]) = longest
                /\ \A j \in 1..longest :
                     docids_tensor[i][j] =
                        IF j <= Len(kept[i].docid.items)
                        THEN Ord(kept[i].docid.items[j]) ELSE 0
           /\ pc \in {"verify", "done"} =>
                LoadFile(out, DocidsPath(input_file_path)) = docids_tensor

\* a saved identifier array with a padded row
C6_Witness ==
    /\ pc = "done"
    /\ Len(docids) = 2
    /\ Len(docids[1]) < Len(docids[2])
    /\ LoadFile(out, DocidsPath(input_file_path))[1][Len(docids[2])] = 0

DebugOn(records) == SelectSeq(records, LAMBDA r : r[1] = DEBUG)

\* C8: after the tensors are written and read back, the two debug records
\* with the decoded vectors and docids are in process_log.log and not on the
\* console.
C8_DebugInLogFile ==
    pc = "done" =>
        /\ DebugOn(FileRecords(logging))
             = << <<DEBUG, <<"Loaded vectors", vectors_tensor>>>>,
                  <<DEBUG, <<"Loaded document IDs (ASCII)", docids_tensor>>>> >>
        /\ DebugOn(ConsoleRecords(logging)) = <<>>

(***************************************************************************)
(* Claims about the whole tool, checked under Spec.                        *)
(***************************************************************************)
\* C3: when the run has ended, every entry of the directory has been
\* processed to its own end (it returned or raised its own exception),
\* whichever entries failed.
C3_SiblingsProcessed ==
    RunEnded => \A i \in DOMAIN outcome : outcome[i] # "not run"

\* the step in which worker w runs the checks of process_file on its entry
Checks(w) ==
    /\ w \in DOMAIN workers'
    /\ workers[w].pc = "check"
    /\ workers'[w].pc # "check"

\* a target path of entry i exists
Collides(i) ==
    \/ Exists(out, VectorsPath(entries[i].name))
    \/ Exists(out, DocidsPath(entries[i].name))

\* the call on entry i raised FileExistsError, having read and written nothing
RaisedExists(i) ==
    /\ outcome'[i] = "FileExistsError"
    /\ progress'[i] = 0
    /\ out' = out
    /\ writers' = writers

\* a second run without --overwrite saves to no file the first run left, and
\* every such file holds what it held
SecondRunKeeps ==
    (run = "second" /\ run' = "second" /\ ~overwrite)
        => \A p \in DOMAIN prior.out :
                /\ p \notin DOMAIN writers'
                /\ p \in DOMAIN out'
                /\ out'[p] = prior.out[p]

\* C4, as claimed: without overwrite, a call that finds either target path
\* raises FileExistsError before it reads its input or writes; and a second
\* run without --overwrite leaves every output as the first run left it.
C4_ExistsErrorFirst ==
    [][/\ \A w \in DOMAIN workers :
            (Checks(w) /\ ~overwrite /\ Collides(Head(workers[w].chunk)))
                => RaisedExists(Head(workers[w].chunk))
       /\ SecondRunKeeps]_vars

\* C4, amended: the same of a call whose input path exists (the check of
\* line 16 comes first, and raises FileNotFoundError).
C4_ExistsErrorOnExistingInput ==
    [][/\ \A w \in DOMAIN workers :
            (/\ Checks(w)
             /\ ~overwrite
             /\ entries[Head(workers[w].chunk)].exists
             /\ Collides(Head(workers[w].chunk)))
                => RaisedExists(Head(workers[w].chunk))
       /\ SecondRunKeeps]_vars

\* a second run without --overwrite has ended on FileExistsError, over the
\* files of the first run
C4_Witness ==
    /\ run = "second"
    /\ ~overwrite
    /\ main = "crashed"
    /\ main_error = "FileExistsError"
    /\ \E i \in DOMAIN outcome :
            outcome[i] = "FileExistsError" /\ progress[i] = 0
    /\ out # NoFiles
    /\ out = prior.out

\* C7: two runs with --overwrite on one input directory leave the same
\* contents in every output file.
C7_SameOutputs ==
    (run = "second" /\ RunEnded /\ overwrite /\ prior.overwrite)
        => out = prior.out

\* C9: within a run no output file is saved by the tasks of two entries.
C9_OneWriter ==
    \A p \in DOMAIN writers : Cardinality(writers[p]) <= 1

\* C10: whatever the directory holds, the pool has at least one process and
\* is created: the run does not end on an exception unless a task raised.
C10_PoolCreated ==
    run # "none" =>
        /\ num_processes >= 1
        /\ main = "crashed" => ~result.success

====
